---- MODULE Spec2Model ----
(***************************************************************************)
(* Model of anything.py: the cache-key derivation, the fence stripping,   *)
(* the on-disk cache, the generation client, the constructors and the      *)
(* three proxies Anything, LazyAnything and Everything.                    *)
(*                                                                         *)
(* Strings built by f-strings are modelled as tuples of their fields, so   *)
(* two strings are equal exactly when the formatted fields are equal.      *)
(* sha256 is modelled as an injective tag around its argument.             *)
(* A reply of the generation endpoint is an input: the call either raises  *)
(* ("fail") or returns source text, which is characterised by what its     *)
(* execution does to the target name.                                      *)
(***************************************************************************)
EXTENDS Integers, Sequences, FiniteSets, TLC

VARIABLES
    aDisk,        \* Anything: the files of cache_dir (.anything), path -> source
    aEnv,         \* Anything: self._env, name -> value
    registered,   \* LazyAnything._registered_functions, name -> value
    pending,      \* LazyAnything._pending_functions, ordered dict as a sequence
    generated,    \* LazyAnything._generated
    regOrder,     \* history: the pending names, ordered by their latest register call
    last,         \* history: the Anything/LazyAnything operation that ran last
    eDisk,        \* Everything: the files of cache_dir (.everything), path -> source
    eEnv,         \* Everything: self._env, name -> value
    functions,    \* Everything._functions, cache key -> value
    constants,    \* Everything._constants, name -> value
    _context,     \* Everything._context, a list of entries
    objs,         \* history: constant values created so far by this instance
    firstVal,     \* history: name -> the value Everything[name] returned first
    elast,        \* history: the Everything operation that ran last
    eCaller,      \* Everything: the env argument of __init__ as the caller holds it
    kd,           \* two calls of one attribute and the keys and paths derived for them
    cc,           \* a body text, a fence around it and what _clean_code makes of both
    cfg           \* a construction of a component and its outcome

aVars == <<aDisk, aEnv, registered, pending, generated, regOrder, last>>
eVars == <<eDisk, eEnv, functions, constants, _context, objs, firstVal, elast, eCaller>>
pVars == <<kd, cc, cfg>>
vars == <<aVars, eVars, pVars>>

----------------------------------------------------------------------------
(* Bounds *)

MaxFiles == 2     \* files in a cache directory
MaxArgs == 1      \* positional arguments of a call whose key is derived
MaxBody == 3      \* characters of a body text given to _clean_code

----------------------------------------------------------------------------
(* Values, sources and dictionaries *)

Names == {"f", "g"}

\* A stub function as seen by _get_function_signature: __name__, __doc__ and
\* the "return" entry of __annotations__ ("absent" when there is none).
\* f is declared in two variants, so that a name can be registered again
\* with another signature.
Funcs == {[name |-> "f", doc |-> "d1", ret |-> "int"],
          [name |-> "f", doc |-> "d2", ret |-> "absent"],
          [name |-> "g", doc |-> "d1", ret |-> "int"]}

\* Python objects bound in a namespace.  src is the cache key of the request
\* whose source text created the object (<<>> for None and for objects the
\* host program put there).
\* obj tells apart the values that executing one constant source twice
\* creates (0 where identity is not followed).
NoneVal == [k |-> "None", src |-> <<>>, obj |-> 0]
HostVal == [k |-> "host", src |-> <<>>, obj |-> 0]
FnVal(key) == [k |-> "fn", src |-> key, obj |-> 0]
FalsyVal(key) == [k |-> "falsy", src |-> key, obj |-> 0]

\* bool(v): functions and host objects are truthy, None and 0/""/[] are not.
Truthy(v) == v.k \in {"fn", "host", "truthy"}

\* v(*args, **kwargs) raises TypeError unless v is callable.
Callable(v) == v.k \in {"fn", "host"}

\* What the endpoint may answer: "fail" is a transport/endpoint error, the
\* others are source texts: "def" defines the target name as a function,
\* "nodef" runs but leaves the target name alone, "falsy" binds the target
\* name to a falsy object, "raise" fails when executed.
CodeKinds == {"def", "nodef", "falsy", "raise"}
Replies == {"fail"} \cup CodeKinds

EmptyDict == [x \in {} |-> NoneVal]

\* dict.get(key) with the default None
DictGet(d, key) == IF key \in DOMAIN d THEN d[key] ELSE NoneVal

\* d[key] = value on a dict whose order does not matter
DictPut(d, key, value) == (key :> value) @@ d

\* The namespaces a caller can pass as env: none or an empty one, or one
\* where the names are already bound to objects of the host program
\* (env=globals() in the examples).
HostEnvs == {[n \in S |-> HostVal] : S \in {{}, Names}}

\* The env argument of a constructor: left out (None), or a mapping
NoEnvArg == [given |-> FALSE, map |-> EmptyDict]
EnvArgs == {NoEnvArg} \cup {[given |-> TRUE, map |-> m] : m \in HostEnvs}

\* self._env = env or {}: None and an empty mapping are falsy, so both give a
\* new dict; same tells whether self._env is the object the caller passed.
EnvOrFresh(arg) ==
    IF arg.given /\ DOMAIN arg.map # {}
    THEN [same |-> TRUE, env |-> arg.map]
    ELSE [same |-> FALSE, env |-> EmptyDict]

----------------------------------------------------------------------------
(* Module-level helpers and BaseGenerator *)

\* f"Function: {name}, Doc: {doc}, Args: {annotations}, Return: {return_type}"
\* with return_type = annotations.pop("return", "None")
_get_function_signature(func) ==
    <<func.name, func.doc, IF func.ret = "absent" THEN "None" ELSE func.ret>>

sha256(s) == <<"sha256", s>>

\* cache_dir / f"{id_}_{hash_key}.py"
_get_cache_path(id_, cache_key) == <<id_, sha256(cache_key)>>

\* exec(code, env): the bindings the source text leaves in the namespace.
\* Only called for sources that do not raise.
Exec(code, env) ==
    CASE code.kind = "def" -> DictPut(env, code.target, FnVal(code.key))
      [] code.kind = "falsy" -> DictPut(env, code.target, FalsyVal(code.key))
      [] OTHER -> env

\* _save_to_cache: open(path, "w") creates or truncates the file.
_save_to_cache(disk, cache_path, code) == DictPut(disk, cache_path, code)

\* Returns the namespace after the load, the value handed back and whether
\* the exec of the cached source raised.
_load_from_cache(disk, env, cache_path, func_name) ==
    IF cache_path \in DOMAIN disk
    THEN LET code == disk[cache_path]
         IN IF code.kind = "raise"
            THEN [res |-> "raise", env |-> env, val |-> NoneVal]
            ELSE LET env2 == Exec(code, env)
                 IN [res |-> "ok", env |-> env2, val |-> DictGet(env2, func_name)]
    ELSE [res |-> "ok", env |-> env, val |-> NoneVal]

\* _generate_code with an except clause that logs and returns an empty text
_generate_code_swallow(reply, target, key) ==
    [res |-> "ok",
     code |-> [kind |-> IF reply = "fail" THEN "nodef" ELSE reply,
               target |-> target, key |-> key]]

\* One call of client.chat.completions.create with a prompt asking for
\* target; key identifies the request.  The except clause logs and re-raises.
_generate_code(reply, target, key) ==
    IF reply = "fail"
    THEN [res |-> "raise", code |-> [kind |-> "raise", target |-> target, key |-> key]]
    ELSE [res |-> "ok", code |-> [kind |-> reply, target |-> target, key |-> key]]

\* exec(code, self._env); return self._env[func_name] (KeyError when absent)
_execute_code(code, env, func_name) ==
    IF code.kind = "raise"
    THEN [res |-> "raise", env |-> env, val |-> NoneVal]
    ELSE LET env2 == Exec(code, env)
         IN IF func_name \in DOMAIN env2
            THEN [res |-> "ok", env |-> env2, val |-> env2[func_name]]
            ELSE [res |-> "raise", env |-> env2, val |-> NoneVal]

----------------------------------------------------------------------------
(* Anything *)

\* Anything.__call__(func, context) on the state st = [disk, env].
\* context is the sequence of signatures joined by "\n" ("" is <<>>).
\* Result: the new disk and env, res ("ok" or "raise"), the value
\* returned, and for the history: the cache path, whether its file existed
\* at the lookup, whether the endpoint was called and whether that call
\* raised.
Anything__call__(st, func, context, reply) ==
    LET signature == _get_function_signature(func)
        cache_key == <<signature, context>>
        cache_path == _get_cache_path(func.name, cache_key)
        existed == cache_path \in DOMAIN st.disk
        ld == _load_from_cache(st.disk, st.env, cache_path, func.name)
        base == [disk |-> st.disk, env |-> ld.env,
                 res |-> "ok", val |-> NoneVal, path |-> cache_path,
                 existed |-> existed, called |-> FALSE, failed |-> FALSE,
                 wrote |-> FALSE]
    IN IF ld.res = "raise" THEN [base EXCEPT !.res = "raise"]
       ELSE IF Truthy(ld.val) THEN [base EXCEPT !.val = ld.val]
       ELSE LET g == _generate_code(reply, func.name, cache_key)
                c1 == [base EXCEPT !.called = TRUE, !.failed = (reply = "fail")]
            IN IF g.res = "raise" THEN [c1 EXCEPT !.res = "raise"]
               ELSE LET ex == _execute_code(g.code, ld.env, func.name)
                    IN IF ex.res = "raise"
                       THEN [c1 EXCEPT !.res = "raise", !.env = ex.env]
                       ELSE [c1 EXCEPT !.env = ex.env, !.val = ex.val,
                                       !.wrote = TRUE,
                                       !.disk = _save_to_cache(st.disk, cache_path, g.code)]

----------------------------------------------------------------------------
(* LazyAnything *)

\* Position of a key in an ordered dict, 0 when absent.
DictIndex(d, name) ==
    IF \E i \in 1..Len(d) : d[i].name = name
    THEN CHOOSE i \in 1..Len(d) : d[i].name = name
    ELSE 0

\* self._pending_functions[func.__name__] = func: a new key goes to the end,
\* an existing key keeps its position and gets the new value.
PendingPut(d, func) ==
    IF DictIndex(d, func.name) = 0
    THEN Append(d, func)
    ELSE [d EXCEPT ![DictIndex(d, func.name)] = func]

\* _build_context with the first pending function left out of the context
_build_context_skip_first(pend) ==
    [i \in 1..(IF Len(pend) = 0 THEN 0 ELSE Len(pend) - 1) |->
        _get_function_signature(pend[i + 1])]

\* "\n".join of the signatures of the pending functions, in dict order
_build_context(pend) ==
    [i \in 1..Len(pend) |-> _get_function_signature(pend[i])]

\* What the history keeps of one Anything.__call__
GenRecord(func, context, r) ==
    [name |-> func.name, sig |-> _get_function_signature(func), ctx |-> context,
     existed |-> r.existed, called |-> r.called, failed |-> r.failed,
     wrote |-> r.wrote, res |-> r.res]

\* The for loop of _generate_all from the i-th pending function on.  An
\* exception leaves the loop with what was done so far.
RECURSIVE GenLoop(_, _, _, _, _)
GenLoop(st, pend, context, replies, i) ==
    IF i > Len(pend) THEN st
    ELSE LET r == Anything__call__([disk |-> st.disk, env |-> st.env],
                                   pend[i], context, replies[i])
             st2 == [disk |-> r.disk, env |-> r.env,
                     registered |-> IF r.res = "ok"
                                    THEN DictPut(st.registered, pend[i].name, r.val)
                                    ELSE st.registered,
                     generated |-> st.generated,
                     res |-> r.res,
                     gens |-> Append(st.gens, GenRecord(pend[i], context, r))]
         IN IF r.res = "raise" THEN st2
            ELSE GenLoop(st2, pend, context, replies, i + 1)

\* _generate_all without the early return on self._generated
_generate_all_unguarded(replies) ==
    LET st == [disk |-> aDisk, env |-> aEnv,
               registered |-> registered, generated |-> generated,
               res |-> "ok", gens |-> <<>>]
        r == GenLoop(st, pending, _build_context(pending), replies, 1)
    IN IF r.res = "raise" THEN r ELSE [r EXCEPT !.generated = TRUE]

\* LazyAnything._generate_all on the current state
_generate_all(replies) ==
    LET st == [disk |-> aDisk, env |-> aEnv,
               registered |-> registered, generated |-> generated,
               res |-> "ok", gens |-> <<>>]
    IN IF generated THEN st
       ELSE LET r == GenLoop(st, pending, _build_context(pending), replies, 1)
            IN IF r.res = "raise" THEN r ELSE [r EXCEPT !.generated = TRUE]

\* The replies a run of _generate_all can consume: one per pending function,
\* none once the instance is generated.
TriggerReplies ==
    IF generated THEN {[i \in 1..Len(pending) |-> "fail"]}
    ELSE [1..Len(pending) -> Replies]

\* s without the entries equal to x
Without(s, x) == SelectSeq(s, LAMBDA y : y # x)

\* LazyAnything.register(func)
register(func) ==
    /\ pending' = PendingPut(pending, func)
    /\ regOrder' = Append(Without(regOrder, func.name), func.name)
    /\ last' = [op |-> "register", name |-> func.name, res |-> "ok",
                gens |-> <<>>, wasGenerated |-> generated]
    /\ UNCHANGED <<aDisk, aEnv, registered, generated, eVars, pVars>>

\* generate_all() and finalize(): both only call _generate_all
Trigger(op) ==
    \E replies \in TriggerReplies :
        \E r \in {_generate_all(replies)} :
           /\ Cardinality(DOMAIN r.disk) <= MaxFiles
           /\ aDisk' = r.disk
           /\ aEnv' = r.env
           /\ registered' = r.registered
           /\ generated' = r.generated
           /\ last' = [op |-> op, name |-> "", res |-> r.res,
                       gens |-> r.gens, wasGenerated |-> generated]
           /\ UNCHANGED <<pending, regOrder, eVars, pVars>>

generate_all == Trigger("generate_all")

finalize == Trigger("finalize")

\* The wrapper that register handed back for a function of this name
wrapper(name) ==
    /\ DictIndex(pending, name) # 0
    /\ \E replies \in TriggerReplies :
        \E r \in {_generate_all(replies)} :
        LET res == IF r.res = "raise" THEN "raise"
                   ELSE IF name \notin DOMAIN r.registered THEN "raise"
                   ELSE IF ~Callable(r.registered[name]) THEN "raise"
                   ELSE "ok"
        IN /\ Cardinality(DOMAIN r.disk) <= MaxFiles
           /\ aDisk' = r.disk
           /\ aEnv' = r.env
           /\ registered' = r.registered
           /\ generated' = r.generated
           /\ last' = [op |-> "wrapper", name |-> name, res |-> res,
                       gens |-> r.gens, wasGenerated |-> generated]
           /\ UNCHANGED <<pending, regOrder, eVars, pVars>>

\* self.generator(func) called directly, with the default context ""
Anything_call(func) ==
    \E reply \in Replies :
        \E r \in {Anything__call__([disk |-> aDisk, env |-> aEnv], func, <<>>, reply)} :
           /\ Cardinality(DOMAIN r.disk) <= MaxFiles
           /\ aDisk' = r.disk
           /\ aEnv' = r.env
           /\ last' = [op |-> "call", name |-> func.name, res |-> r.res,
                       gens |-> <<GenRecord(func, <<>>, r)>>,
                       wasGenerated |-> generated]
           /\ UNCHANGED <<registered, pending, generated, regOrder, eVars, pVars>>

\* A cache file removed from outside the program
ExternalDelete(path) ==
    /\ path \in DOMAIN aDisk
    /\ aDisk' = [q \in DOMAIN aDisk \ {path} |-> aDisk[q]]
    /\ last' = [op |-> "delete", name |-> "", res |-> "ok",
                gens |-> <<>>, wasGenerated |-> generated]
    /\ UNCHANGED <<aEnv, registered, pending, generated, regOrder, eVars, pVars>>

EmptyDisk == [p \in {} |-> [kind |-> "def", target |-> "", key |-> <<>>]]

\* BaseGenerator.__init__ for an Anything used on its own: a new instance
\* over the same cache directory, with the namespace the caller passes.
Anything__init__(env) ==
    /\ aEnv' = env
    /\ last' = [op |-> "init", name |-> "", res |-> "ok",
                gens |-> <<>>, wasGenerated |-> generated]
    /\ UNCHANGED <<aDisk, registered, pending, generated, regOrder, eVars, pVars>>

\* The state after BaseGenerator.__init__ and LazyAnything.__init__, over an
\* empty cache directory.
InitAnything ==
    /\ aDisk = EmptyDisk
    /\ aEnv \in HostEnvs
    /\ registered = EmptyDict
    /\ pending = <<>>
    /\ generated = FALSE
    /\ regOrder = <<>>
    /\ last = [op |-> "init", name |-> "", res |-> "ok",
               gens |-> <<>>, wasGenerated |-> FALSE]

----------------------------------------------------------------------------
(* Everything *)

\* Runtime types of arguments and their __name__: two distinct classes can
\* carry the same __name__ (queue.Queue and asyncio.Queue).
Types == {"int", "str", "queue.Queue", "asyncio.Queue"}

TypeName(t) ==
    CASE t = "queue.Queue" -> "Queue"
      [] t = "asyncio.Queue" -> "Queue"
      [] OTHER -> t

\* [type(arg).__name__ for arg in args]
ArgTypes(args) == [i \in 1..Len(args) |-> TypeName(args[i].type)]

\* {k: type(v).__name__ for k, v in kwargs.items()}: a dict in the order the
\* keywords were passed, as its repr shows it
KwargTypes(kwargs) ==
    [i \in 1..Len(kwargs) |-> <<kwargs[i].k, TypeName(kwargs[i].v.type)>>]

\* f"{func_name}_{arg_types}_{kwarg_types}"
_get_cache_key(func_name, args, kwargs) ==
    <<func_name, ArgTypes(args), KwargTypes(kwargs)>>

\* _add_to_context without the membership test
_add_to_context_unchecked(ctx, item_type, name, description) ==
    Append(ctx, <<item_type, name, description>>)

\* f"{item_type}: {name} - {description}" appended unless already present
_add_to_context(ctx, item_type, name, description) ==
    LET context_entry == <<item_type, name, description>>
    IN IF \E i \in 1..Len(ctx) : ctx[i] = context_entry
       THEN ctx
       ELSE Append(ctx, context_entry)

\* f"args: {arg_types}, kwargs: {kwarg_types}"
FunctionDescription(args, kwargs) == <<"args", ArgTypes(args), "kwargs", KwargTypes(kwargs)>>

\* Everything._generate_function on st = [disk, env, context]
_generate_function(st, func_name, args, kwargs, reply) ==
    LET cache_key == _get_cache_key(func_name, args, kwargs)
        cache_path == _get_cache_path(func_name, cache_key)
        existed == cache_path \in DOMAIN st.disk
        ld == _load_from_cache(st.disk, st.env, cache_path, func_name)
        ctx2 == _add_to_context(st.context, "Function", func_name,
                                FunctionDescription(args, kwargs))
        base == [disk |-> st.disk, env |-> ld.env, context |-> st.context,
                 res |-> "ok", val |-> NoneVal, existed |-> existed,
                 called |-> FALSE, failed |-> FALSE, wrote |-> FALSE]
    IN IF ld.res = "raise" THEN [base EXCEPT !.res = "raise"]
       ELSE IF Truthy(ld.val) THEN [base EXCEPT !.val = ld.val, !.context = ctx2]
       ELSE LET g == _generate_code(reply, func_name, cache_key)
                c1 == [base EXCEPT !.called = TRUE, !.failed = (reply = "fail")]
            IN IF g.res = "raise" THEN [c1 EXCEPT !.res = "raise"]
               ELSE LET ex == _execute_code(g.code, ld.env, func_name)
                    IN IF ex.res = "raise"
                       THEN [c1 EXCEPT !.res = "raise", !.env = ex.env]
                       ELSE [c1 EXCEPT !.env = ex.env, !.val = ex.val,
                                       !.wrote = TRUE, !.context = ctx2,
                                       !.disk = _save_to_cache(st.disk, cache_path, g.code)]

\* The wrapper that Everything.__getattr__(func_name) returns, called
Everything_wrapper(func_name, args, kwargs) ==
    \E reply \in Replies :
        \E r \in {_generate_function([disk |-> eDisk, env |-> eEnv, context |-> _context],
                                      func_name, args, kwargs, reply)} :
        LET cache_key == _get_cache_key(func_name, args, kwargs)
            inTable == cache_key \in DOMAIN functions
            fns == IF inTable THEN functions
                   ELSE IF r.res = "raise" THEN functions
                   ELSE DictPut(functions, cache_key, r.val)
            res == IF ~inTable /\ r.res = "raise" THEN "raise"
                   ELSE IF ~Callable(fns[cache_key]) THEN "raise"
                   ELSE "ok"
        IN /\ Cardinality(DOMAIN r.disk) <= MaxFiles
           /\ functions' = fns
           /\ IF inTable
              THEN UNCHANGED <<eDisk, eEnv, _context>>
              ELSE /\ eDisk' = r.disk
                   /\ eEnv' = r.env
                   /\ _context' = r.context
           /\ elast' = [op |-> "call", name |-> func_name, key |-> cache_key,
                        res |-> res, inTable |-> inTable, seen |-> FALSE,
                        existed |-> IF inTable THEN FALSE ELSE r.existed,
                        called |-> IF inTable THEN FALSE ELSE r.called,
                        failed |-> ~inTable /\ r.failed,
                        wrote |-> IF inTable THEN FALSE ELSE r.wrote,
                        val |-> IF cache_key \in DOMAIN fns THEN fns[cache_key] ELSE NoneVal]
           /\ UNCHANGED <<constants, objs, firstVal, eCaller, aVars, pVars>>

\* Constant names: a lower-case one and one that is its own upper case
ConstNames == {"zero", "ZERO"}

\* const_name.upper()
Upper(const_name) == IF const_name = "zero" THEN "ZERO" ELSE const_name

\* What the endpoint may answer when asked for a constant: "val" binds the
\* name to a truthy value, "falsy" binds it to a falsy one, "upper" binds the
\* upper-cased name, "nodef" binds neither, "raise" fails when executed.
ConstReplies == {"fail", "val", "falsy", "upper", "nodef", "raise"}

\* local_env = {}; exec(code, local_env): the bindings of a constant
\* source; obj identifies the value this execution creates.
ExecLocal(code, obj) ==
    CASE code.kind = "val" ->
           DictPut(EmptyDict, code.target, [k |-> "truthy", src |-> code.key, obj |-> obj])
      [] code.kind = "falsy" ->
           DictPut(EmptyDict, code.target, [k |-> "falsy", src |-> code.key, obj |-> obj])
      [] code.kind = "upper" ->
           DictPut(EmptyDict, Upper(code.target), [k |-> "truthy", src |-> code.key, obj |-> obj])
      [] OTHER -> EmptyDict

\* local_env.get(const_name, local_env.get(const_name.upper()))
ConstLookup(local_env, const_name) ==
    IF const_name \in DOMAIN local_env THEN local_env[const_name]
    ELSE DictGet(local_env, Upper(const_name))

\* Everything._generate_constant on st = [disk, context, objs]
_generate_constant(st, const_name, reply) ==
    LET cache_key == <<"const", const_name>>
        cache_path == _get_cache_path(const_name, cache_key)
        existed == cache_path \in DOMAIN st.disk
        base == [disk |-> st.disk, context |-> st.context, objs |-> st.objs,
                 res |-> "ok", val |-> NoneVal, existed |-> existed,
                 called |-> FALSE, failed |-> FALSE, wrote |-> FALSE]
        Finish(b, code) ==
            IF code.kind = "raise" THEN [b EXCEPT !.res = "raise"]
            ELSE LET value == ConstLookup(ExecLocal(code, st.objs + 1), const_name)
                 IN [b EXCEPT !.val = value,
                              !.objs = IF value = NoneVal THEN st.objs ELSE st.objs + 1,
                              !.context = _add_to_context(st.context, "Constant", const_name,
                                                          <<"value", value.k>>)]
    IN IF existed THEN Finish(base, st.disk[cache_path])
       ELSE LET g == _generate_code(reply, const_name, cache_key)
                c1 == [base EXCEPT !.called = TRUE, !.failed = (reply = "fail")]
            IN IF g.res = "raise" THEN [c1 EXCEPT !.res = "raise"]
               ELSE Finish([c1 EXCEPT !.wrote = TRUE,
                                      !.disk = _save_to_cache(st.disk, cache_path, g.code)],
                           g.code)

\* The membership test replaced by a truthiness test of the stored value
InConstantsTruthy(consts, const_name) ==
    const_name \in DOMAIN consts /\ Truthy(consts[const_name])

\* const_name in self._constants
InConstants(consts, const_name) == const_name \in DOMAIN consts

\* Everything.__getitem__(const_name)
Everything__getitem__(const_name) ==
    \E reply \in ConstReplies :
        \E r \in {_generate_constant([disk |-> eDisk, context |-> _context, objs |-> objs],
                                      const_name, reply)} :
        LET inTable == InConstants(constants, const_name)
            raised == ~inTable /\ r.res = "raise"
            consts == IF inTable \/ raised THEN constants
                      ELSE DictPut(constants, const_name, r.val)
        IN /\ Cardinality(DOMAIN r.disk) <= MaxFiles
           /\ constants' = consts
           /\ IF inTable
              THEN UNCHANGED <<eDisk, _context, objs>>
              ELSE /\ eDisk' = r.disk
                   /\ _context' = r.context
                   /\ objs' = r.objs
           /\ firstVal' = IF raised \/ const_name \in DOMAIN firstVal THEN firstVal
                          ELSE DictPut(firstVal, const_name, consts[const_name])
           /\ elast' = [op |-> "getitem", name |-> const_name,
                        key |-> <<"const", const_name>>,
                        res |-> IF raised THEN "raise" ELSE "ok", inTable |-> inTable,
                        seen |-> const_name \in DOMAIN firstVal,
                        existed |-> IF inTable THEN FALSE ELSE r.existed,
                        called |-> IF inTable THEN FALSE ELSE r.called,
                        failed |-> ~inTable /\ r.failed,
                        wrote |-> IF inTable THEN FALSE ELSE r.wrote,
                        val |-> IF raised THEN NoneVal ELSE consts[const_name]]
           /\ UNCHANGED <<eEnv, functions, eCaller, aVars, pVars>>

NoOp(op) == [op |-> op, name |-> "", key |-> <<>>, res |-> "ok", inTable |-> FALSE,
             seen |-> FALSE,
             existed |-> FALSE, called |-> FALSE, failed |-> FALSE, wrote |-> FALSE,
             val |-> NoneVal]

\* clear_context removing only the newest entry
clear_context_pop ==
    /\ _context' = SubSeq(_context, 1, Len(_context) - 1)
    /\ elast' = NoOp("clear")
    /\ UNCHANGED <<eDisk, eEnv, functions, constants, objs, firstVal, eCaller, aVars, pVars>>

\* Everything.clear_context()
clear_context ==
    /\ _context' = <<>>
    /\ elast' = NoOp("clear")
    /\ UNCHANGED <<eDisk, eEnv, functions, constants, objs, firstVal, eCaller, aVars, pVars>>

\* Descriptions handed to _add_to_context: of a function call shape, of
\* constant values
ContextEntries ==
    {<<"Function", "f", <<"args", <<"int">>, "kwargs", <<>>>>>>,
     <<"Constant", "one", <<"value", "truthy">>>>}

\* Everything._add_to_context(item_type, name, description) called on the
\* instance; seen records whether the entry was in the list already.
add_to_context(item_type, name, description) ==
    /\ _context' = _add_to_context(_context, item_type, name, description)
    /\ elast' = [NoOp("add") EXCEPT
                    !.name = name,
                    !.key = <<item_type, name, description>>,
                    !.seen = \E i \in 1..Len(_context) :
                                _context[i] = <<item_type, name, description>>]
    /\ UNCHANGED <<eDisk, eEnv, functions, constants, objs, firstVal, eCaller, aVars, pVars>>

\* Everything.__init__ / BaseGenerator.__init__: a new instance over the
\* same cache directory, with the env argument the caller passes.
Everything__init__(arg) ==
    /\ eEnv' = EnvOrFresh(arg).env
    /\ eCaller' = [given |-> arg.given, same |-> EnvOrFresh(arg).same]
    /\ functions' = EmptyDict
    /\ constants' = EmptyDict
    /\ _context' = <<>>
    /\ objs' = 0
    /\ firstVal' = EmptyDict
    /\ elast' = NoOp("init")
    /\ UNCHANGED <<eDisk, aVars, pVars>>

\* A file of .everything removed from outside the program
EverythingExternalDelete(path) ==
    /\ path \in DOMAIN eDisk
    /\ eDisk' = [q \in DOMAIN eDisk \ {path} |-> eDisk[q]]
    /\ elast' = NoOp("delete")
    /\ UNCHANGED <<eEnv, functions, constants, _context, objs, firstVal, eCaller, aVars, pVars>>

\* The state after Everything.__init__, over an empty cache directory
InitEverything ==
    /\ eDisk = EmptyDisk
    /\ \E arg \in EnvArgs :
          /\ eEnv = EnvOrFresh(arg).env
          /\ eCaller = [given |-> arg.given, same |-> EnvOrFresh(arg).same]
    /\ functions = EmptyDict
    /\ constants = EmptyDict
    /\ _context = <<>>
    /\ objs = 0
    /\ firstVal = EmptyDict
    /\ elast = NoOp("init")

\* Sample calls of one attribute: two values of one type, another type, and
\* keywords.
IntArg(n) == [type |-> "int", val |-> n]
StrArg == [type |-> "str", val |-> 1]
CallShapes == {[args |-> <<IntArg(1)>>, kwargs |-> <<>>],
               [args |-> <<IntArg(2)>>, kwargs |-> <<>>],
               [args |-> <<StrArg>>, kwargs |-> <<>>]}

----------------------------------------------------------------------------
(* Key derivation on its own *)

\* Argument values: two ints, and one object of each of two classes that
\* share their __name__
ArgVals == {IntArg(1), IntArg(2),
            [type |-> "queue.Queue", val |-> 1], [type |-> "asyncio.Queue", val |-> 1]}

KwNames == {"a", "b"}
KwVals == {IntArg(1), IntArg(2), StrArg}

\* All sequences over S of length at most n
RECURSIVE SeqsUpTo(_, _)
SeqsUpTo(S, n) ==
    IF n = 0 THEN {<<>>}
    ELSE LET shorter == SeqsUpTo(S, n - 1)
         IN shorter \cup {Append(q, x) : q \in shorter, x \in S}

\* **kwargs: every keyword at most once, in the order the call site wrote them
KwargSeqs ==
    {q \in SeqsUpTo([k : KwNames, v : KwVals], Cardinality(KwNames)) :
        \A i, j \in 1..Len(q) : i # j => q[i].k # q[j].k}

KeyCalls == [args : SeqsUpTo(ArgVals, MaxArgs), kwargs : KwargSeqs]

NoKey == <<>>

InitKey ==
    /\ kd \in [a : KeyCalls, b : KeyCalls, ka : {NoKey}, kb : {NoKey},
                pa : {NoKey}, pb : {NoKey}, done : {FALSE}]

\* Everything.__getattr__("f") called with kd.a and with kd.b: the key of
\* the wrapper and the path of _generate_function
DeriveKeys ==
    /\ ~kd.done
    /\ LET ka == _get_cache_key("f", kd.a.args, kd.a.kwargs)
           kb == _get_cache_key("f", kd.b.args, kd.b.kwargs)
       IN kd' = [kd EXCEPT !.ka = ka, !.kb = kb,
                           !.pa = _get_cache_path("f", ka),
                           !.pb = _get_cache_path("f", kb),
                           !.done = TRUE]
    /\ UNCHANGED <<aVars, eVars, cc, cfg>>

KeyIdle == [a |-> <<>>, b |-> <<>>, ka |-> NoKey, kb |-> NoKey,
            pa |-> NoKey, pb |-> NoKey, done |-> FALSE]

----------------------------------------------------------------------------
(* _clean_code on its own *)

\* Texts are sequences of characters.  The backtick is written "bq".
Fence == <<"bq", "bq", "bq">>
PythonTag == <<"p", "y", "t", "h", "o", "n">>
Whitespace == {" ", "\n"}

\* content.startswith(prefix)
StartsWith(content, prefix) ==
    Len(content) >= Len(prefix) /\ SubSeq(content, 1, Len(prefix)) = prefix

\* content[start:-stop] for start >= 0 and stop > 0
Slice(content, start, stop) ==
    IF Len(content) - stop >= start + 1
    THEN SubSeq(content, start + 1, Len(content) - stop)
    ELSE <<>>

\* content.strip()
RECURSIVE LStrip(_)
LStrip(content) ==
    IF content # <<>> /\ Head(content) \in Whitespace
    THEN LStrip(Tail(content))
    ELSE content

RECURSIVE RStrip(_)
RStrip(content) ==
    IF content # <<>> /\ content[Len(content)] \in Whitespace
    THEN RStrip(SubSeq(content, 1, Len(content) - 1))
    ELSE content

Strip(content) == RStrip(LStrip(content))

_clean_code(content) ==
    IF StartsWith(content, Fence \o PythonTag)
    THEN Strip(Slice(content, 9, 3))
    ELSE IF StartsWith(content, Fence)
         THEN Strip(Slice(content, 3, 3))
         ELSE Strip(content)

\* Body texts of a reply: code characters, blanks, line ends and backticks
BodyChars == {"x", " ", "\n", "bq"}
Bodies == SeqsUpTo(BodyChars, MaxBody)

\* The tag after the opening fence: none, python, or another name for it
LanguageTags == {<<>>, PythonTag, <<"p", "y">>}

\* The body wrapped in a fence: opening fence and tag on a line of their
\* own, the body, the closing fence on a line of its own
Fenced(body, tag) == Fence \o tag \o <<"\n">> \o body \o <<"\n">> \o Fence

CleanIdle == [body |-> <<>>, tag |-> <<>>, fenced |-> <<>>, plain |-> <<>>, done |-> FALSE]

InitClean ==
    cc \in [body : Bodies, tag : LanguageTags, fenced : {<<>>}, plain : {<<>>},
            done : {FALSE}]

\* _generate_code's return _clean_code(content), for the reply that fences
\* the body and for the reply that is the bare body
CleanBoth ==
    /\ ~cc.done
    /\ cc' = [cc EXCEPT !.fenced = _clean_code(Fenced(cc.body, cc.tag)),
                        !.plain = _clean_code(cc.body),
                        !.done = TRUE]
    /\ UNCHANGED <<aVars, eVars, kd, cfg>>

----------------------------------------------------------------------------
(* Construction with keyword arguments *)

Components == {"Anything", "LazyAnything", "Everything"}

\* The parameters of BaseGenerator.__init__
ConfigKeys == {"api_key", "cache_dir", "env", "model"}

\* Values a caller passes for a parameter
ConfigValues(key) ==
    CASE key = "api_key" -> {"key"}
      [] key = "cache_dir" -> {"dirA", "dirB"}
      [] key = "env" -> {"globals"}
      [] key = "model" -> {"gpt-4.1"}

\* **kwargs of a constructor call: some of the parameters, by keyword
ConfigKwargs ==
    UNION {{kw \in [S -> UNION {ConfigValues(k) : k \in ConfigKeys}] :
               \A k \in S : kw[k] \in ConfigValues(k)} : S \in SUBSET ConfigKeys}

\* A call f(explicit keywords, **kwargs): a keyword given both ways is a
\* TypeError (got multiple values for keyword argument)
CallWithKeywords(explicit, kwargs) ==
    IF DOMAIN explicit \cap DOMAIN kwargs # {}
    THEN [res |-> "TypeError", kw |-> explicit]
    ELSE [res |-> "ok", kw |-> explicit @@ kwargs]

\* BaseGenerator.__init__ entered through a call: self.cache_dir is the
\* cache_dir argument, Path(".") / ".anything" by default
BaseGenerator__init__(call) ==
    IF call.res # "ok" THEN [res |-> call.res, cache_dir |-> ""]
    ELSE [res |-> "ok",
          cache_dir |-> IF "cache_dir" \in DOMAIN call.kw
                        THEN call.kw["cache_dir"] ELSE ".anything"]

\* Anything(**kwargs): super().__init__(**kwargs)
Anything_construct(kwargs) ==
    BaseGenerator__init__(CallWithKeywords(<<>>, kwargs))

\* LazyAnything(**kwargs): self.generator = Anything(**kwargs)
LazyAnything_construct(kwargs) == Anything_construct(kwargs)

\* Everything(**kwargs):
\* super().__init__(cache_dir=kwargs.get('cache_dir', Path(".") / ".everything"), **kwargs)
Everything_construct(kwargs) ==
    LET cache_dir == IF "cache_dir" \in DOMAIN kwargs
                     THEN kwargs["cache_dir"] ELSE ".everything"
    IN BaseGenerator__init__(CallWithKeywords([k \in {"cache_dir"} |-> cache_dir], kwargs))

ConfigIdle == [component |-> "", kwargs |-> <<>>, res |-> "", cache_dir |-> "",
               done |-> FALSE]

InitConfig ==
    cfg \in [component : Components, kwargs : ConfigKwargs, res : {""},
             cache_dir : {""}, done : {FALSE}]

\* The constructor call cfg.component(**cfg.kwargs)
Construct ==
    /\ ~cfg.done
    /\ LET r == CASE cfg.component = "Anything" -> Anything_construct(cfg.kwargs)
                  [] cfg.component = "LazyAnything" -> LazyAnything_construct(cfg.kwargs)
                  [] cfg.component = "Everything" -> Everything_construct(cfg.kwargs)
       IN cfg' = [cfg EXCEPT !.res = r.res, !.cache_dir = r.cache_dir, !.done = TRUE]
    /\ UNCHANGED <<aVars, eVars, kd, cc>>

----------------------------------------------------------------------------
(* Specifications *)

\* The other components stay as constructed with the default arguments.
\* One Everything instance after the other over one cache directory: calls
\* of the attribute f, the constant zero, clears
InitEverythingSpec ==
    /\ InitEverything
    /\ InitAnything /\ aEnv = EmptyDict
    /\ kd = KeyIdle /\ cc = CleanIdle /\ cfg = ConfigIdle

NextEverything ==
    \/ \E c \in CallShapes : Everything_wrapper("f", c.args, c.kwargs)
    \/ Everything__getitem__("zero")
    \/ clear_context
    \/ \E arg \in EnvArgs : Everything__init__(arg)

SpecEverything == InitEverythingSpec /\ [][NextEverything]_vars

\* Constants only, over a cache directory whose files can be removed from
\* outside
NextConstants ==
    \/ \E name \in ConstNames : Everything__getitem__(name)
    \/ clear_context
    \/ \E arg \in EnvArgs : Everything__init__(arg)
    \/ \E path \in DOMAIN eDisk : EverythingExternalDelete(path)

SpecConstants == InitEverythingSpec /\ [][NextConstants]_vars

\* One Everything instance and its context list: calls, constants, clears
\* and descriptions added directly
NextContext ==
    \/ \E c \in CallShapes : Everything_wrapper("f", c.args, c.kwargs)
    \/ Everything__getitem__("zero")
    \/ clear_context
    \/ \E e \in ContextEntries : add_to_context(e[1], e[2], e[3])

SpecContext == InitEverythingSpec /\ [][NextContext]_vars

\* Two calls of one attribute, their keys and paths
InitKeySpec ==
    /\ InitKey /\ cc = CleanIdle /\ cfg = ConfigIdle
    /\ InitAnything /\ aEnv = EmptyDict
    /\ InitEverything /\ eEnv = EmptyDict /\ ~eCaller.given

SpecKey == InitKeySpec /\ [][DeriveKeys]_vars

\* _clean_code applied to a fenced and to a bare reply with one body
InitCleanSpec ==
    /\ InitClean /\ kd = KeyIdle /\ cfg = ConfigIdle
    /\ InitAnything /\ aEnv = EmptyDict
    /\ InitEverything /\ eEnv = EmptyDict /\ ~eCaller.given

SpecClean == InitCleanSpec /\ [][CleanBoth]_vars

\* One constructor call with keyword arguments
InitConfigSpec ==
    /\ InitConfig /\ kd = KeyIdle /\ cc = CleanIdle
    /\ InitAnything /\ aEnv = EmptyDict
    /\ InitEverything /\ eEnv = EmptyDict /\ ~eCaller.given

SpecConfig == InitConfigSpec /\ [][Construct]_vars

\* Anything used on its own as a decorator, over a cache directory that
\* outlives the instances
InitAnythingSpec ==
    /\ InitAnything
    /\ InitEverything /\ eEnv = EmptyDict /\ ~eCaller.given
    /\ kd = KeyIdle /\ cc = CleanIdle /\ cfg = ConfigIdle

NextAnything ==
    \/ \E func \in Funcs : Anything_call(func)
    \/ \E env \in HostEnvs : Anything__init__(env)
    \/ \E path \in DOMAIN aDisk : ExternalDelete(path)

SpecAnything == InitAnythingSpec /\ [][NextAnything]_vars

\* One LazyAnything instance: registrations and the three triggers
NextLazy ==
    \/ \E func \in Funcs : register(func)
    \/ generate_all
    \/ finalize
    \/ \E name \in Names : wrapper(name)

SpecLazy == InitAnythingSpec /\ [][NextLazy]_vars

\* A program that works with one component: a LazyAnything and its
\* generator, or an Everything.  The component that is not used stays as
\* constructed.
LazyAnythingUnused == last.op = "init" /\ aEnv = EmptyDict

EverythingUnused == elast.op = "init" /\ eEnv = EmptyDict /\ ~eCaller.given

InitOneComponentSpec ==
    /\ InitAnything
    /\ InitEverything
    /\ aEnv = EmptyDict \/ (eEnv = EmptyDict /\ ~eCaller.given)
    /\ kd = KeyIdle /\ cc = CleanIdle /\ cfg = ConfigIdle

NextOneComponent ==
    \/ EverythingUnused /\ \E func \in Funcs : register(func)
    \/ EverythingUnused /\ generate_all
    \/ EverythingUnused /\ \E name \in Names : wrapper(name)
    \/ LazyAnythingUnused /\ \E c \in CallShapes : Everything_wrapper("f", c.args, c.kwargs)
    \/ LazyAnythingUnused /\ Everything__getitem__("zero")
    \/ LazyAnythingUnused /\ clear_context

SpecOneComponent == InitOneComponentSpec /\ [][NextOneComponent]_vars

----------------------------------------------------------------------------
(* Claims *)

TriggerOps == {"generate_all", "finalize", "wrapper"}

\* C1: an invocation of Anything.__call__ whose artifact was generated and
\* cached earlier (its cache file exists at the lookup) obtains the function
\* from the cache and makes no endpoint call.
C1_RoundTripNoEndpointCall ==
    (last.op = "call" /\ last.gens[1].existed) => ~last.gens[1].called

\* C2: a cache file that exists is never overwritten by the system: as long
\* as a path stays in the cache directory its content stays the same.
C2_CachedFileNeverOverwritten ==
    [][\A p \in DOMAIN aDisk : p \in DOMAIN aDisk' => aDisk'[p] = aDisk[p]]_vars

\* The runtime types of the positional arguments, and the keyword-name to
\* type mapping of a call
PosTypes(c) == [i \in 1..Len(c.args) |-> c.args[i].type]
KwTypeMap(c) == {<<c.kwargs[i].k, c.kwargs[i].v.type>> : i \in 1..Len(c.kwargs)}

\* C3: two calls of one name whose positional argument types or whose
\* keyword-name to type mappings differ derive different cache keys and
\* different cache paths.
C3_TypesDifferKeysDiffer ==
    (kd.done /\ (PosTypes(kd.a) # PosTypes(kd.b) \/ KwTypeMap(kd.a) # KwTypeMap(kd.b)))
        => (kd.ka # kd.kb /\ kd.pa # kd.pb)

\* C4: two calls of one name with the same positional types in the same
\* positions and the same keyword names with the same types derive the
\* identical cache key and the identical cache path.
C4_ValuesDifferKeysEqual ==
    (kd.done /\ PosTypes(kd.a) = PosTypes(kd.b) /\ KwTypeMap(kd.a) = KwTypeMap(kd.b))
        => (kd.ka = kd.kb /\ kd.pa = kd.pb)

\* C5: when a trigger (generate_all, finalize or a wrapper call) completes
\* for the first time every pending name has an entry in the registered
\* table, and a trigger that runs after that makes no generation call and
\* changes no state of the instance or of the cache directory; generate_all
\* and finalize then return normally.
C5_TriggerOnce ==
    /\ [](( last.op \in TriggerOps /\ ~last.wasGenerated /\ generated)
            => \A i \in 1..Len(pending) : pending[i].name \in DOMAIN registered)
    /\ [][(generated /\ last'.op \in TriggerOps)
            => (/\ last'.gens = <<>>
                /\ last'.op \in {"generate_all", "finalize"} => last'.res = "ok"
                /\ UNCHANGED <<aDisk, aEnv, registered, pending, generated>>)]_vars

\* A second trigger ran after two functions had been generated together.
C5_Witness ==
    /\ last.op \in {"generate_all", "finalize"}
    /\ last.wasGenerated
    /\ Len(pending) = 2
    /\ \A i \in 1..Len(pending) : pending[i].name \in DOMAIN registered

\* C6: once Generated is reached no step adds or replaces a pending
\* registration.
C6_NoRegistrationAfterGenerated ==
    [][generated => pending' = pending]_vars

\* The context a trigger has to use: the signatures of the pending
\* functions in the order of the pending table, where a name stands at the
\* place of its first registration.
PendingSignatures == [j \in 1..Len(pending) |-> _get_function_signature(pending[j])]

\* The signatures of the pending functions ordered by their register calls
RegistrationOrderSignatures ==
    [j \in 1..Len(regOrder) |->
        _get_function_signature(pending[DictIndex(pending, regOrder[j])])]

\* A trigger that found the instance not yet generated
TriggerRan == last.op \in TriggerOps /\ ~last.wasGenerated

\* C7 (as amended): a trigger generates the pending functions in the order
\* of the pending table, every one of them with one and the same context,
\* which holds the signature of every pending function, each name at the
\* place of its first registration.
C7_SharedContext ==
    TriggerRan =>
        /\ Len(last.gens) <= Len(pending)
        /\ \A i \in 1..Len(last.gens) :
              /\ last.gens[i].name = pending[i].name
              /\ last.gens[i].sig = PendingSignatures[i]
              /\ last.gens[i].ctx = PendingSignatures
              /\ \E j \in 1..Len(last.gens[i].ctx) : last.gens[i].ctx[j] = last.gens[i].sig

\* Two pending functions were generated together after one of them had been
\* registered again.
C7_Witness ==
    /\ TriggerRan
    /\ Len(last.gens) = 2
    /\ generated
    /\ PendingSignatures # RegistrationOrderSignatures

\* C7 (as claimed): the shared context lists the signatures of the pending
\* registrations in registration order.
C7_RegistrationOrder ==
    TriggerRan => \A i \in 1..Len(last.gens) :
                      last.gens[i].ctx = RegistrationOrderSignatures

\* C8: after a trigger has completed the pending table is empty.
C8_PendingDiscarded ==
    generated => pending = <<>>

\* C9: every file of the cache directory holds source text whose execution
\* succeeded before it was written.
C9_OnlyExecutedSourceCached ==
    \A p \in DOMAIN eDisk : eDisk[p].kind # "raise"

\* C10: an Everything[name] for a name that was returned before on this
\* instance returns the value returned first, the same object, and makes no
\* endpoint call.
C10_ConstantCached ==
    (elast.op = "getitem" /\ elast.seen)
        => (/\ elast.res = "ok"
            /\ ~elast.called
            /\ elast.val = firstVal[elast.name])

\* A constant whose first value was falsy was requested again after its
\* cache file had been removed.
C10_Witness ==
    /\ elast.op = "getitem"
    /\ elast.seen
    /\ elast.val.k = "falsy"
    /\ _get_cache_path(elast.name, elast.key) \notin DOMAIN eDisk

\* C14: for every body text, _clean_code of the body wrapped in a
\* triple-backtick fence, with or without a language tag, returns the same
\* stripped source as _clean_code of the bare body.
C14_FenceStripped ==
    cc.done => cc.fenced = cc.plain

\* C17: every component accepts any of the keyword arguments api_key,
\* cache_dir, env and model, and constructed with a cache_dir it is an
\* instance whose cache directory is that one.
C17_ConfigurationAccepted ==
    cfg.done =>
        /\ cfg.res = "ok"
        /\ "cache_dir" \in DOMAIN cfg.kwargs => cfg.cache_dir = cfg.kwargs["cache_dir"]

\* C11: the context list never holds two equal entries, whatever calls,
\* constant accesses, clears and additions happened; adding a description
\* that is in the list leaves the list as it is, adding one that is not
\* appends it at the end.
C11_ContextDeduplicated ==
    /\ [](\A i, j \in 1..Len(_context) : i # j => _context[i] # _context[j])
    /\ [][elast'.op = "add" =>
            IF \E i \in 1..Len(_context) : _context[i] = elast'.key
            THEN _context' = _context
            ELSE _context' = Append(_context, elast'.key)]_vars

\* A description was added that the list, holding entries of a generated
\* function and of another description, had already.
C11_Witness ==
    /\ elast.op = "add"
    /\ elast.seen
    /\ Len(_context) >= 2
    /\ functions # EmptyDict

\* C12: right after a clear_context the context list is empty; the call
\* leaves the function table, the constant table and the cache directory as
\* they were, and a clear_context that directly follows another changes
\* nothing.
C12_ClearContext ==
    /\ [](elast.op = "clear" => _context = <<>>)
    /\ [][elast'.op = "clear" =>
            (_context' = <<>> /\ UNCHANGED <<functions, constants, eDisk>>)]_vars
    /\ [][(elast.op = "clear" /\ elast'.op = "clear") =>
            UNCHANGED <<_context, functions, constants, eDisk, eEnv>>]_vars

\* clear_context ran on an instance that holds a function, a constant and
\* their cache files.
C12_Witness ==
    /\ elast.op = "clear"
    /\ functions # EmptyDict
    /\ constants # EmptyDict
    /\ Cardinality(DOMAIN eDisk) = 2

\* C13: a call of a name with a shape that succeeds invokes the
\* implementation that was generated for that shape, never one generated for
\* another shape of the name.
C13_ShapeOwnImplementation ==
    (elast.op = "call" /\ elast.res = "ok" /\ elast.val.k = "fn")
        => elast.val.src = elast.key

\* The mapping the caller passed as env, as the caller sees it now: it is
\* self._env when the instance kept the object, and still empty otherwise.
CallerEnv == IF eCaller.same THEN eEnv ELSE EmptyDict

\* C16: when the caller supplied a mapping as env, empty or not, a function
\* that a generation or a cache load produced is bound under its name in
\* that mapping, and so is a constant, under its name or the upper-cased one.
C16_BoundInCallerEnv ==
    /\ (elast.op = "call" /\ ~elast.inTable /\ elast.key \in DOMAIN functions
            /\ eCaller.given)
        => (/\ elast.name \in DOMAIN CallerEnv
            /\ CallerEnv[elast.name] = functions[elast.key])
    /\ (elast.op = "getitem" /\ ~elast.inTable /\ elast.res = "ok"
            /\ elast.val # NoneVal /\ eCaller.given)
        => \E n \in {elast.name, Upper(elast.name)} :
              n \in DOMAIN CallerEnv /\ CallerEnv[n] = elast.val

\* C18: right after a successful call of the wrapper for a name with a
\* shape, however the implementation was found, the context list holds the
\* entry that describes the name and the shape.
C18_ContextRecorded ==
    (elast.op = "call" /\ elast.res = "ok")
        => \E i \in 1..Len(_context) :
              /\ _context[i][1] = "Function"
              /\ _context[i] = <<"Function", elast.name,
                                 <<"args", elast.key[2], "kwargs", elast.key[3]>>>>

\* A trigger ran, and the generation or the execution of one of the pending
\* functions failed in it
FailedTrigger ==
    /\ TriggerRan
    /\ \E i \in 1..Len(last.gens) : last.gens[i].res = "raise"

\* C19: a trigger in which a pending function fails raises and leaves the
\* instance not generated; the trigger that follows starts again with the
\* first pending function, and every function that had succeeded before the
\* failure is then loaded from its cache file without an endpoint call.
C19_RetryLoadsFromCache ==
    /\ [](FailedTrigger => (last.res = "raise" /\ ~generated))
    /\ [][(FailedTrigger /\ last'.op \in TriggerOps) =>
            /\ last'.gens # <<>>
            /\ last'.gens[1].name = pending[1].name
            /\ \A i \in 1..Len(last.gens) :
                  last.gens[i].res = "ok" =>
                      /\ i <= Len(last'.gens)
                      /\ last'.gens[i].existed
                      /\ ~last'.gens[i].called]_vars

\* The operations of Anything and LazyAnything that can call the endpoint
GeneratingOps == TriggerOps \cup {"call"}

\* C15 (as amended): when the generation call raises, the operation raises
\* and the request whose generation call raised leaves no trace: no cache
\* file is written for it, no context entry is appended, no entry for it is
\* added to the function, constant or registered table, and the same request
\* made again misses the cache again.  What a deferred trigger wrote for the
\* pending functions before the failing one stays.
C15_FailedRequestLeavesNoTrace ==
    /\ [][(elast'.op \in {"call", "getitem"} /\ elast'.failed) =>
            LET path == _get_cache_path(elast'.name, elast'.key)
            IN /\ elast'.res = "raise"
               /\ UNCHANGED <<eDisk, _context, functions, constants>>
               /\ elast'.op = "call" =>
                     /\ elast'.key \notin DOMAIN functions'
                     /\ ~Truthy(_load_from_cache(eDisk', eEnv', path, elast'.name).val)
               /\ elast'.op = "getitem" =>
                     /\ elast'.name \notin DOMAIN constants'
                     /\ path \notin DOMAIN eDisk']_vars
    /\ [][(/\ last'.op \in GeneratingOps
           /\ last'.gens # <<>>
           /\ last'.gens[Len(last'.gens)].failed) =>
            LET n == Len(last'.gens)
                g == last'.gens[n]
                path == _get_cache_path(g.name, <<g.sig, g.ctx>>)
            IN /\ last'.res = "raise"
               /\ generated' = generated
               /\ path \in DOMAIN aDisk' =>
                     (path \in DOMAIN aDisk /\ aDisk'[path] = aDisk[path])
               /\ g.name \in DOMAIN registered' =>
                     (g.name \in DOMAIN registered
                        /\ registered'[g.name] = registered[g.name])
               /\ ~Truthy(_load_from_cache(aDisk', aEnv', path, g.name).val)
               /\ \A p \in DOMAIN aDisk' :
                     (p \notin DOMAIN aDisk \/ aDisk'[p] # aDisk[p]) =>
                         \E i \in 1..(n - 1) :
                            /\ last'.gens[i].wrote
                            /\ p = _get_cache_path(last'.gens[i].name,
                                       <<last'.gens[i].sig, last'.gens[i].ctx>>)]_vars

\* The endpoint call of the second of two pending functions raised in a
\* trigger that had generated and cached the first.
C15_Witness ==
    /\ last.op \in TriggerOps
    /\ Len(last.gens) = 2
    /\ last.gens[2].failed
    /\ last.gens[1].wrote
    /\ last.res = "raise"

\* C15 (as claimed): an operation in which the generation call raises ends
\* with no cache file written, no context entry appended and no entry added
\* to the function, constant or registered table.
C15_FailedOperationLeavesNoTrace ==
    /\ [][(elast'.op \in {"call", "getitem"} /\ elast'.failed) =>
            /\ elast'.res = "raise"
            /\ UNCHANGED <<eDisk, _context, functions, constants>>]_vars
    /\ [][(/\ last'.op \in GeneratingOps
           /\ \E i \in 1..Len(last'.gens) : last'.gens[i].failed) =>
            /\ last'.res = "raise"
            /\ UNCHANGED <<aDisk, registered>>]_vars

====
